---- MODULE Spec2Model ----
(***************************************************************************)
(* The client gate of the MedAssist protected pages                        *)
(* (src/fix-auth-template.js), the /auth/me session endpoint it calls      *)
(* (getMe, src/unnamed/part_001) and the browser storage both sides of the *)
(* gate share.                                                             *)
(***************************************************************************)
EXTENDS Integers, FiniteSets, Sequences, TLC

\* --------------------------------------------------------------- constants
Roles == {"user", "pharmacy", "delivery", "admin"}
Null == "null"                      \* localStorage.getItem of a missing key
Pages == {"pharmacy/dashboard.html", "admin/dashboard.html"}
\* <body data-required-role=...>: the EXPECTED_ROLE of each page's gate
PageRole(page) == IF page = "pharmacy/dashboard.html" THEN "pharmacy" ELSE "admin"
UserId == "u1"                      \* the principal of the /auth/me scenario
IssuedToken == "t1"                 \* the JWT the backend signs for UserId
ForgedToken == "forged"             \* a token authMiddleware does not verify
Tokens == {IssuedToken, ForgedToken}
\* What becomes of one /auth/me round trip: the backend's answer arrives,
\* fetch rejects, no answer ever comes, or a 200 arrives whose body is no
\* JSON, is JSON without data, or is JSON whose data has no user.
Fates == {"up", "down", "hang", "html", "nodata", "nouser"}

NoItem == [kind |-> "null"]
NoResponse == [ok |-> FALSE, status |-> 0, body |-> [kind |-> "none"]]

VARIABLES
    localStorage,   \* per browser profile: the token and userCache slots
    users,          \* identity store: role of UserId, or Null once deleted
    tokenValid,     \* whether IssuedToken still verifies (signature, expiry)
    tokenRole,      \* the role in IssuedToken's payload, as of its issuance
    gate,           \* per view <<profile, page>>: the gate run of that page
    loggedOut,      \* per profile: a logout happened and no login since
    rejected        \* per profile: a run was rejected or denied, no login since

vars == <<localStorage, users, tokenValid, tokenRole, gate, loggedOut, rejected>>

Profiles == DOMAIN localStorage
Views == DOMAIN gate
RequiredRole(v) == PageRole(v[2])

\* ----------------------------------------------------------- localStorage
\* localStorage.clear(): every key of the origin is removed.
RemoveTokenOnly(storage) == [storage EXCEPT !.token = Null]
RemoveCacheOnly(storage) == [storage EXCEPT !.userCache = NoItem]
Clear(storage) == [token |-> Null, userCache |-> NoItem]

\* localStorage.setItem('token', value)
SetToken(storage, value) == [storage EXCEPT !.token = value]

\* JSON.stringify(user): the string stored under userCache.
JSONStringifyRoleOnly(user) == [kind |-> "json", user |-> [role |-> user.role]]
JSONStringify(user) == [kind |-> "json", user |-> user]

\* localStorage.setItem('userCache', value)
SetCache(storage, value) == [storage EXCEPT !.userCache = value]

\* ------------------------------------------------------------ the backend
\* authMiddleware: verifies the JWT and attaches req.user (the userId and
\* role of the JWT payload), or rejects.
AuthMiddleware(token) ==
    IF token = IssuedToken /\ tokenValid
    THEN [verified |-> TRUE, userId |-> UserId, role |-> tokenRole]
    ELSE [verified |-> FALSE, userId |-> Null, role |-> Null]

\* The role-specific fields getMe spreads into the user object.
RoleFields(role) ==
    CASE role = "pharmacy" -> {"pharmacyName", "licenseNumber"}
      [] role = "delivery" -> {"firstName", "vehicleType"}
      [] OTHER -> {}

\* getMe: User.findById(req.user.userId); 404 when the record is gone.
GetMeFromPayload(req) ==
    [ok |-> TRUE, status |-> 200,
     body |-> [kind |-> "json", success |-> TRUE,
               data |-> [user |-> [id |-> req.userId, role |-> req.role,
                                   fields |-> RoleFields(req.role)]]]]
GetMeFallback(req) ==
    IF users = Null THEN GetMeFromPayload(req)
    ELSE [ok |-> TRUE, status |-> 200,
          body |-> [kind |-> "json", success |-> TRUE,
                    data |-> [user |-> [id |-> req.userId, role |-> users,
                                        fields |-> RoleFields(users)]]]]
GetMe(req) ==
    IF users = Null
    THEN [ok |-> FALSE, status |-> 404,
          body |-> [kind |-> "json", success |-> FALSE]]
    ELSE [ok |-> TRUE, status |-> 200,
          body |-> [kind |-> "json", success |-> TRUE,
                    data |-> [user |-> [id |-> req.userId, role |-> users,
                                        fields |-> RoleFields(users)]]]]

\* router.get('/auth/me', authMiddleware, authController.getMe)
AuthMe(token) ==
    LET req == AuthMiddleware(token) IN
    IF req.verified THEN GetMe(req)
    ELSE [ok |-> FALSE, status |-> 401,
          body |-> [kind |-> "json", success |-> FALSE]]

\* What fetch resolves to when the round trip is answered at all.
Delivered(fate, token) ==
    CASE fate = "up" -> AuthMe(token)
      [] fate = "html" -> [ok |-> TRUE, status |-> 200, body |-> [kind |-> "html"]]
      [] fate = "nodata" -> [ok |-> TRUE, status |-> 200,
                            body |-> [kind |-> "json", success |-> TRUE]]
      [] fate = "nouser" -> [ok |-> TRUE, status |-> 200,
                            body |-> [kind |-> "json", success |-> TRUE,
                                      data |-> [message |-> "ok"]]]

\* ------------------------------------------------------------ the gate run
IdleGate ==
    [pc |-> "idle", required |-> Null, token |-> Null,
     request |-> Null, requests |-> 0, fate |-> "none", response |-> NoResponse,
     location |-> "none", redirects |-> 0, alerted |-> FALSE,
     cached |-> NoItem, outcome |-> "none", rendered |-> FALSE,
     tornDown |-> FALSE, late |-> {}, afterLogout |-> FALSE,
     afterRejection |-> FALSE]

\* The state of the spec's state machine a run is in.
GateState(v) ==
    CASE gate[v].pc = "idle" -> "None"
      [] gate[v].redirects > 0 -> "Redirecting"
      [] gate[v].pc = "done" -> "Authorized"
      [] OTHER -> "Checking"

Storage(v) == localStorage[v[1]]

\* if (!token)
NoTokenUndefined(token) == token = "undefined"
NoTokenEmptyString(token) == token = ""
NoToken(token) == token = Null

\* if (!response.ok)
NotOk(response) == ~response.ok

\* response.json() throws when the body is no JSON; data.data.user throws
\* when there is no data; user.role throws when there is no user.
Throws(body) ==
    \/ body.kind # "json"
    \/ "data" \notin DOMAIN body
    \/ "user" \notin DOMAIN body.data

\* const user = data.data.user
User(v) == gate[v].response.body.data.user

\* user.role: undefined when the object has no such property
RoleOf(user) == IF "role" \in DOMAIN user THEN user.role ELSE "undefined"

\* if (user.role !== 'EXPECTED_ROLE')
RoleDeniedAdminPass(v) ==
    RoleOf(User(v)) # gate[v].required /\ RoleOf(User(v)) # "admin"
RoleDeniedCopyPaste(v) == RoleOf(User(v)) # "pharmacy"
RoleDeniedByCache(v) ==
    IF Storage(v).userCache.kind = "json"
    THEN RoleOf(Storage(v).userCache.user) # gate[v].required
    ELSE RoleOf(User(v)) # gate[v].required
RoleDenied(v) == RoleOf(User(v)) # gate[v].required

\* The effects a continuation has after the view was torn down.
Late(v, effects) == IF gate[v].tornDown THEN gate[v].late \cup effects ELSE gate[v].late

\* localStorage.clear(); window.location.replace('login.html');
\* (with the alert before them on a role mismatch).  The navigation replaces
\* the document, so whatever the page had rendered is gone.
ClearAlertAndRedirect(v, why, response, alerted) ==
    /\ localStorage' = [localStorage EXCEPT ![v[1]] = Clear(@)]
    /\ rejected' = [rejected EXCEPT ![v[1]] = TRUE]
    /\ gate' = [gate EXCEPT ![v] =
                  [@ EXCEPT !.pc = "done", !.response = response,
                            !.location = "login.html", !.redirects = @ + 1,
                            !.alerted = TRUE, !.outcome = why,
                            !.rendered = FALSE,
                            !.late = Late(v, {"clear", "redirect", "alert"})]]
ClearAndRedirectTwice(v, why, response, alerted) ==
    /\ localStorage' = [localStorage EXCEPT ![v[1]] = Clear(@)]
    /\ rejected' = [rejected EXCEPT ![v[1]] = TRUE]
    /\ gate' = [gate EXCEPT ![v] =
                  [@ EXCEPT !.pc = "done", !.response = response,
                            !.location = "login.html", !.redirects = @ + 2,
                            !.alerted = alerted, !.outcome = why,
                            !.rendered = FALSE,
                            !.late = Late(v, {"clear", "redirect"}
                                              \cup IF alerted THEN {"alert"} ELSE {})]]
ClearAndRedirect(v, why, response, alerted) ==
    /\ localStorage' = [localStorage EXCEPT ![v[1]] = Clear(@)]
    /\ rejected' = [rejected EXCEPT ![v[1]] = TRUE]
    /\ gate' = [gate EXCEPT ![v] =
                  [@ EXCEPT !.pc = "done", !.response = response,
                            !.location = "login.html", !.redirects = @ + 1,
                            !.alerted = alerted, !.outcome = why,
                            !.rendered = FALSE,
                            !.late = Late(v, {"clear", "redirect"}
                                              \cup IF alerted THEN {"alert"} ELSE {})]]

\* Lines 3-11: the synchronous part of the gate, up to the first await.
\* fate is what the network will do to the request this run sends.
EnterView(v, fate) ==
    /\ gate[v].pc = "idle"
    /\ LET token == Storage(v).token IN
       IF NoToken(token)
       THEN gate' = [gate EXCEPT ![v] =
                       [@ EXCEPT !.pc = "done", !.required = RequiredRole(v),
                                 !.token = token,
                                 !.location = "login.html", !.redirects = @ + 1,
                                 !.outcome = "noToken",
                                 !.afterLogout = loggedOut[v[1]],
                                 !.afterRejection = rejected[v[1]]]]
       ELSE gate' = [gate EXCEPT ![v] =
                       [@ EXCEPT !.pc = "awaitFetch", !.required = RequiredRole(v),
                                 !.token = token, !.request = token,
                                 !.requests = @ + 1, !.fate = fate,
                                 !.afterLogout = loggedOut[v[1]],
                                 !.afterRejection = rejected[v[1]]]]
    /\ UNCHANGED <<localStorage, users, tokenValid, tokenRole, loggedOut, rejected>>

\* Lines 9-17: fetch resolves with a response.
FetchResolved(v) ==
    /\ gate[v].pc = "awaitFetch"
    /\ gate[v].fate \in {"up", "html", "nodata", "nouser"}
    /\ LET response == Delivered(gate[v].fate, gate[v].request) IN
       IF NotOk(response)
       THEN ClearAndRedirect(v, "notOk", response, FALSE)
       ELSE /\ gate' = [gate EXCEPT ![v] =
                          [@ EXCEPT !.pc = "awaitJson", !.response = response]]
            /\ UNCHANGED <<localStorage, rejected>>
    /\ UNCHANGED <<users, tokenValid, tokenRole, loggedOut>>

\* Lines 26-30: fetch rejects (network failure) and the catch block runs.
FetchRejected(v) ==
    /\ gate[v].pc = "awaitFetch"
    /\ gate[v].fate = "down"
    /\ ClearAndRedirect(v, "error", NoResponse, FALSE)
    /\ UNCHANGED <<users, tokenValid, tokenRole, loggedOut>>

\* Lines 17-30: the body is read; role check, cache write or catch.
JsonResolvedSwallow(v) ==
    /\ gate[v].pc = "awaitJson"
    /\ IF Throws(gate[v].response.body)
       THEN /\ gate' = [gate EXCEPT ![v] = [@ EXCEPT !.pc = "done", !.outcome = "error"]]
            /\ UNCHANGED <<localStorage, rejected>>
       ELSE IF RoleDenied(v)
       THEN ClearAndRedirect(v, "roleMismatch", gate[v].response, TRUE)
       ELSE /\ localStorage' = [localStorage EXCEPT ![v[1]] =
                                  SetCache(@, JSONStringify(User(v)))]
            /\ gate' = [gate EXCEPT ![v] =
                          [@ EXCEPT !.pc = "done", !.outcome = "ok",
                                    !.cached = JSONStringify(User(v)),
                                    !.late = Late(v, {"setItem", "authorized"})]]
            /\ UNCHANGED rejected
    /\ UNCHANGED <<users, tokenValid, tokenRole, loggedOut>>
JsonResolved(v) ==
    /\ gate[v].pc = "awaitJson"
    /\ IF Throws(gate[v].response.body)
       THEN ClearAndRedirect(v, "error", gate[v].response, FALSE)
       ELSE IF RoleDenied(v)
       THEN ClearAndRedirect(v, "roleMismatch", gate[v].response, TRUE)
       ELSE /\ localStorage' = [localStorage EXCEPT ![v[1]] =
                                  SetCache(@, JSONStringify(User(v)))]
            /\ gate' = [gate EXCEPT ![v] =
                          [@ EXCEPT !.pc = "done", !.outcome = "ok",
                                    !.cached = JSONStringify(User(v)),
                                    !.late = Late(v, {"setItem", "authorized"})]]
            /\ UNCHANGED rejected
    /\ UNCHANGED <<users, tokenValid, tokenRole, loggedOut>>

\* ---------------------------------------------------------- the environment
\* The page below the inline script: the async function returned its promise
\* at the first await (or at a return), so the parser goes on with the body.
Render(v) ==
    /\ gate[v].pc # "idle"
    /\ ~gate[v].rendered
    /\ ~gate[v].tornDown
    /\ gate[v].location = "none"
    /\ gate' = [gate EXCEPT ![v] = [@ EXCEPT !.rendered = TRUE]]
    /\ UNCHANGED <<localStorage, users, tokenValid, tokenRole, loggedOut, rejected>>

\* The view is closed or navigated away while the round trip is pending.
Teardown(v) ==
    /\ gate[v].pc \in {"awaitFetch", "awaitJson"}
    /\ ~gate[v].tornDown
    /\ gate' = [gate EXCEPT ![v] = [@ EXCEPT !.tornDown = TRUE, !.rendered = FALSE]]
    /\ UNCHANGED <<localStorage, users, tokenValid, tokenRole, loggedOut, rejected>>

\* The tab leaves the page after its gate run ended (login.html after a
\* redirect, or any other navigation); the tab can load a page again.
Unload(v) ==
    /\ gate[v].pc = "done"
    /\ gate' = [gate EXCEPT ![v] = IdleGate]
    /\ UNCHANGED <<localStorage, users, tokenValid, tokenRole, loggedOut, rejected>>

\* Login: Auth.saveToken(data.data.token); Auth.cacheUser(data.data.user).
Login(p) ==
    /\ users # Null
    /\ tokenValid' = TRUE
    /\ tokenRole' = users
    /\ localStorage' = [localStorage EXCEPT ![p] =
          SetCache(SetToken(@, IssuedToken),
                   JSONStringify([id |-> UserId, role |-> users,
                                  fields |-> RoleFields(users)]))]
    /\ loggedOut' = [loggedOut EXCEPT ![p] = FALSE]
    /\ rejected' = [rejected EXCEPT ![p] = FALSE]
    /\ UNCHANGED <<users, gate>>

\* Logout: the stored credential and the display cache are cleared.
Logout(p) ==
    /\ localStorage[p].token # Null
    /\ localStorage' = [localStorage EXCEPT ![p] = Clear(@)]
    /\ loggedOut' = [loggedOut EXCEPT ![p] = TRUE]
    /\ UNCHANGED <<users, tokenValid, tokenRole, gate, rejected>>

\* DevTools: localStorage.setItem('userCache', JSON.stringify({role: 'admin'})).
EditCache(p) ==
    /\ localStorage[p].userCache # JSONStringify([role |-> "admin"])
    /\ localStorage' = [localStorage EXCEPT ![p] =
          SetCache(@, JSONStringify([role |-> "admin"]))]
    /\ UNCHANGED <<users, tokenValid, tokenRole, gate, loggedOut, rejected>>

\* Account management (out of the gate's hands): the record's role changes.
ChangeRole(r) ==
    /\ users \notin {Null, r}
    /\ users' = r
    /\ UNCHANGED <<localStorage, tokenValid, tokenRole, gate, loggedOut, rejected>>

\* Account management: the record is deleted.
DeleteUser ==
    /\ users # Null
    /\ users' = Null
    /\ UNCHANGED <<localStorage, tokenValid, tokenRole, gate, loggedOut, rejected>>

\* Time passes and the issued JWT expires.
ExpireToken ==
    /\ tokenValid
    /\ tokenValid' = FALSE
    /\ UNCHANGED <<localStorage, users, tokenRole, gate, loggedOut, rejected>>

EmptyStorage == [token |-> Null, userCache |-> NoItem]

Init ==
    /\ localStorage = [p \in {"browser"} |-> EmptyStorage]
    /\ users \in Roles
    /\ tokenValid = FALSE
    /\ tokenRole = Null
    /\ gate = [v \in {"browser"} \X Pages |-> IdleGate]
    /\ loggedOut = [p \in {"browser"} |-> FALSE]
    /\ rejected = [p \in {"browser"} |-> FALSE]

Next ==
    \/ \E v \in Views, fate \in Fates : EnterView(v, fate)
    \/ \E v \in Views : FetchResolved(v)
    \/ \E v \in Views : FetchRejected(v)
    \/ \E v \in Views : JsonResolved(v)
    \/ \E v \in Views : Render(v)
    \/ \E v \in Views : Teardown(v)
    \/ \E v \in Views : Unload(v)
    \/ \E p \in Profiles : Login(p)
    \/ \E p \in Profiles : Logout(p)
    \/ \E p \in Profiles : EditCache(p)
    \/ \E r \in Roles : ChangeRole(r)
    \/ DeleteUser
    \/ ExpireToken

Spec == Init /\ [][Next]_vars

\* The event loop runs a continuation once its promise has settled, and the
\* network settles every round trip whose fate is not "hang"; nothing in the
\* gate arms a timer.
FairSpec ==
    /\ Spec
    /\ \A v \in {"browser"} \X Pages :
          /\ WF_vars(FetchResolved(v))
          /\ WF_vars(FetchRejected(v))
          /\ WF_vars(JsonResolved(v))

\* Two runs of the gate of one page in two browser profiles that hold the
\* same token and arbitrary display caches, against the same backend state
\* and the same network fate.
CacheValues ==
    {NoItem}
    \cup {[kind |-> "json", user |-> [role |-> r]] : r \in Roles}
    \cup {[kind |-> "json",
           user |-> [id |-> UserId, role |-> r, fields |-> RoleFields(r)]] : r \in Roles}

InitCache ==
    /\ \E token \in {Null} \cup Tokens :
          localStorage \in [{"run1", "run2"} ->
                               {[token |-> token, userCache |-> c] : c \in CacheValues}]
    /\ users \in Roles \cup {Null}
    /\ tokenValid \in BOOLEAN
    /\ tokenRole \in Roles
    /\ \E page \in Pages : gate = [v \in {"run1", "run2"} \X {page} |-> IdleGate]
    /\ loggedOut = [p \in {"run1", "run2"} |-> FALSE]
    /\ rejected = [p \in {"run1", "run2"} |-> FALSE]

EnterSame(v, fate) ==
    /\ \A w \in Views \ {v} : gate[w].fate \in {"none", fate}
    /\ EnterView(v, fate)

NextCache ==
    \/ \E v \in Views, fate \in Fates : EnterSame(v, fate)
    \/ \E v \in Views : FetchResolved(v)
    \/ \E v \in Views : FetchRejected(v)
    \/ \E v \in Views : JsonResolved(v)

SpecCache == InitCache /\ [][NextCache]_vars

\* ------------------------------------------- the inline per-page pattern
\* The gate as pasted into each protected page (part_001, "New (Secure)"):
\* every redirect is followed by a throw, and the catch block clears and
\* redirects unless the message is one of the gate's own.
InlineHandled == {"Invalid role", "Not authenticated", "Auth failed"}

\* if (!['Invalid role', 'Not authenticated', 'Auth failed'].includes(e.message))
CatchRunsInverted(message) == message \in InlineHandled
CatchRuns(message) == message \notin InlineHandled

\* A throw inside the try block, after the branch did (redirected) or did not
\* clear and redirect by itself; the catch block then runs on the message.
InlineThrow(v, why, response, alerted, redirected, message) ==
    LET cleared == redirected \/ CatchRuns(message)
        n == (IF redirected THEN 1 ELSE 0) + (IF CatchRuns(message) THEN 1 ELSE 0)
    IN  /\ localStorage' = IF cleared
                           THEN [localStorage EXCEPT ![v[1]] = Clear(@)]
                           ELSE localStorage
        /\ rejected' = IF cleared THEN [rejected EXCEPT ![v[1]] = TRUE] ELSE rejected
        /\ gate' = [gate EXCEPT ![v] =
                      [@ EXCEPT !.pc = "done", !.response = response,
                                !.location = IF n > 0 THEN "login.html" ELSE @,
                                !.redirects = @ + n,
                                !.alerted = alerted, !.outcome = why,
                                !.rendered = IF n > 0 THEN FALSE ELSE @,
                                !.late = Late(v, (IF cleared THEN {"clear", "redirect"} ELSE {})
                                                  \cup IF alerted THEN {"alert"} ELSE {})]]

\* Lines 215-226: no token: redirect and throw outside the try block.
InlineEnterView(v, fate) ==
    /\ gate[v].pc = "idle"
    /\ LET token == Storage(v).token IN
       IF NoToken(token)
       THEN gate' = [gate EXCEPT ![v] =
                       [@ EXCEPT !.pc = "done", !.required = RequiredRole(v),
                                 !.token = token,
                                 !.location = "login.html", !.redirects = @ + 1,
                                 !.outcome = "noToken",
                                 !.afterLogout = loggedOut[v[1]],
                                 !.afterRejection = rejected[v[1]]]]
       ELSE gate' = [gate EXCEPT ![v] =
                       [@ EXCEPT !.pc = "awaitFetch", !.required = RequiredRole(v),
                                 !.token = token, !.request = token,
                                 !.requests = @ + 1, !.fate = fate,
                                 !.afterLogout = loggedOut[v[1]],
                                 !.afterRejection = rejected[v[1]]]]
    /\ UNCHANGED <<localStorage, users, tokenValid, tokenRole, loggedOut, rejected>>

\* Lines 223-233: fetch resolves; a non-ok response throws 'Auth failed'.
InlineFetchResolved(v) ==
    /\ gate[v].pc = "awaitFetch"
    /\ gate[v].fate \in {"up", "html", "nodata", "nouser"}
    /\ LET response == Delivered(gate[v].fate, gate[v].request) IN
       IF NotOk(response)
       THEN InlineThrow(v, "notOk", response, FALSE, TRUE, "Auth failed")
       ELSE /\ gate' = [gate EXCEPT ![v] =
                          [@ EXCEPT !.pc = "awaitJson", !.response = response]]
            /\ UNCHANGED <<localStorage, rejected>>
    /\ UNCHANGED <<users, tokenValid, tokenRole, loggedOut>>

\* Lines 246-253: fetch rejects and the catch block runs on its TypeError.
InlineFetchRejected(v) ==
    /\ gate[v].pc = "awaitFetch"
    /\ gate[v].fate = "down"
    /\ InlineThrow(v, "error", NoResponse, FALSE, FALSE, "Failed to fetch")
    /\ UNCHANGED <<users, tokenValid, tokenRole, loggedOut>>

\* Lines 233-253: body, role check ('Invalid role'), cache write or catch.
InlineJsonResolved(v) ==
    /\ gate[v].pc = "awaitJson"
    /\ IF Throws(gate[v].response.body)
       THEN InlineThrow(v, "error", gate[v].response, FALSE, FALSE, "TypeError")
       ELSE IF RoleDenied(v)
       THEN InlineThrow(v, "roleMismatch", gate[v].response, TRUE, TRUE, "Invalid role")
       ELSE /\ localStorage' = [localStorage EXCEPT ![v[1]] =
                                  SetCache(@, JSONStringify(User(v)))]
            /\ gate' = [gate EXCEPT ![v] =
                          [@ EXCEPT !.pc = "done", !.outcome = "ok",
                                    !.cached = JSONStringify(User(v)),
                                    !.late = Late(v, {"setItem", "authorized"})]]
            /\ UNCHANGED rejected
    /\ UNCHANGED <<users, tokenValid, tokenRole, loggedOut>>

\* One page gated by the template in one browser profile and by the inline
\* pattern in another, from the same storage contents, against the same
\* backend state and the same network fate.
InitEquiv ==
    /\ \E token \in {Null} \cup Tokens, c \in CacheValues :
          localStorage = [p \in {"template", "inline"} |->
                             [token |-> token, userCache |-> c]]
    /\ users \in Roles \cup {Null}
    /\ tokenValid \in BOOLEAN
    /\ tokenRole \in Roles
    /\ \E page \in Pages : gate = [v \in {"template", "inline"} \X {page} |-> IdleGate]
    /\ loggedOut = [p \in {"template", "inline"} |-> FALSE]
    /\ rejected = [p \in {"template", "inline"} |-> FALSE]

InlineEnterSame(v, fate) ==
    /\ \A w \in Views \ {v} : gate[w].fate \in {"none", fate}
    /\ InlineEnterView(v, fate)

TemplateViews == {v \in Views : v[1] = "template"}
InlineViews == {v \in Views : v[1] = "inline"}

NextEquiv ==
    \/ \E v \in TemplateViews, fate \in Fates : EnterSame(v, fate)
    \/ \E v \in TemplateViews : FetchResolved(v)
    \/ \E v \in TemplateViews : FetchRejected(v)
    \/ \E v \in TemplateViews : JsonResolved(v)
    \/ \E v \in InlineViews, fate \in Fates : InlineEnterSame(v, fate)
    \/ \E v \in InlineViews : InlineFetchResolved(v)
    \/ \E v \in InlineViews : InlineFetchRejected(v)
    \/ \E v \in InlineViews : InlineJsonResolved(v)

SpecEquiv == InitEquiv /\ [][NextEquiv]_vars

\* ------------------------------------------------------------- properties
Checking(v) == GateState(v) = "Checking"
Authorized(v) == GateState(v) = "Authorized"
Redirecting(v) == GateState(v) = "Redirecting" /\ gate[v].location = "login.html"

\* The server answered this run with a success whose role is the required one.
ServerConfirmed(v) ==
    /\ gate[v].requests = 1
    /\ gate[v].response.ok
    /\ ~Throws(gate[v].response.body)
    /\ gate[v].response.body.data.user.role = RequiredRole(v)

\* The step ends v's await of fetch with a rejection: a non-ok response or
\* no response at all.
RejectedStep(v) ==
    /\ gate[v].pc = "awaitFetch"
    /\ gate'[v].pc # "awaitFetch"
    /\ ~gate'[v].response.ok

\* The step reads a success response's body and finds the role it carries.
RoleStep(v) ==
    /\ gate[v].pc = "awaitJson"
    /\ gate'[v].pc # "awaitJson"
    /\ ~Throws(gate[v].response.body)

\* C1: protected content is rendered only in a view whose gate is Authorized
\* (never while Checking, never after Redirecting).
RenderOnlyWhenAuthorized == \A v \in Views : gate[v].rendered => Authorized(v)

\* C2: the gate fails closed: a run is Authorized only if it read a credential
\* at entry and the server confirmed the required role to it; a finished run
\* of any other kind is Redirecting to login.html.
FailsClosed ==
    \A v \in Views :
        /\ Authorized(v) => gate[v].token # Null /\ ServerConfirmed(v)
        /\ (gate[v].pc = "done" /\ ~(gate[v].token # Null /\ ServerConfirmed(v)))
              => Redirecting(v)
FailsClosedWitness ==
    \E v, w \in Views :
        /\ Authorized(v) /\ ServerConfirmed(v)
        /\ Redirecting(w) /\ gate[w].response.ok /\ ~ServerConfirmed(w)

NoCredentialNoRequest ==
    /\ [](\A v \in Views :
            (gate[v].pc # "idle" /\ gate[v].token = Null)
               => Redirecting(v) /\ gate[v].requests = 0 /\ gate[v].request = Null)
    /\ [][\A v \in Views :
            (gate[v].pc = "idle" /\ gate'[v].pc # "idle" /\ Storage(v).token = Null)
               => gate'[v].pc = "done" /\ gate'[v].redirects = 1
                  /\ gate'[v].location = "login.html" /\ gate'[v].requests = 0]_vars
NoCredentialWitness ==
    \E v \in Views :
        gate[v].pc = "done" /\ gate[v].token = Null /\ gate[v].requests = 0
        /\ ~gate[v].afterLogout

\* C5: a step in which the session check is rejected (non-ok response,
\* network failure, or an exception while reading the body) leaves both
\* storage slots empty and the run Redirecting.
RejectionClears ==
    [][\A v \in Views :
         (RejectedStep(v)
          \/ (gate[v].pc = "awaitJson" /\ gate'[v].pc # "awaitJson"
              /\ Throws(gate[v].response.body)))
         => /\ localStorage'[v[1]].token = Null
            /\ localStorage'[v[1]].userCache = NoItem
            /\ gate'[v].pc = "done"
            /\ gate'[v].redirects = 1 /\ gate'[v].location = "login.html"]_vars
RejectionClearsWitness ==
    \E v \in Views :
        /\ gate[v].pc = "done" /\ gate[v].requests = 1 /\ ~gate[v].response.ok
        /\ Redirecting(v)
        /\ Storage(v) = EmptyStorage

\* C6: a step that finds a role other than the required one alerts the user,
\* clears the credential, redirects and writes nothing to the cache; a
\* pharmacy principal ends Redirecting on the admin page and Authorized on
\* the pharmacy page.
MismatchDenied ==
    /\ [][\A v \in Views :
            (RoleStep(v) /\ gate[v].response.body.data.user.role # RequiredRole(v))
            => /\ gate'[v].alerted
               /\ localStorage'[v[1]].token = Null
               /\ localStorage'[v[1]].userCache
                    # [kind |-> "json", user |-> gate[v].response.body.data.user]
               /\ gate'[v].cached = NoItem
               /\ gate'[v].pc = "done"
               /\ gate'[v].redirects = 1 /\ gate'[v].location = "login.html"]_vars
    /\ [](\A v \in Views :
            (gate[v].pc = "done" /\ gate[v].response.ok
             /\ ~Throws(gate[v].response.body)
             /\ gate[v].response.body.data.user.role = "pharmacy")
            => /\ RequiredRole(v) = "admin" => Redirecting(v)
               /\ RequiredRole(v) = "pharmacy" => Authorized(v))
MismatchDeniedWitness ==
    \E v \in Views :
        /\ RequiredRole(v) = "admin"
        /\ gate[v].pc = "done" /\ gate[v].response.ok
        /\ ~Throws(gate[v].response.body)
        /\ gate[v].response.body.data.user.role = "pharmacy"
        /\ gate[v].alerted /\ Redirecting(v)

\* C7: a step that finds the required role writes exactly the server's user
\* object to userCache, leaves the token alone and ends Authorized with no
\* redirect.
MatchAuthorizes ==
    [][\A v \in Views :
         (RoleStep(v) /\ gate[v].response.body.data.user.role = RequiredRole(v))
         => /\ localStorage'[v[1]].userCache
                 = [kind |-> "json", user |-> gate[v].response.body.data.user]
            /\ localStorage'[v[1]].token = localStorage[v[1]].token
            /\ gate'[v].pc = "done"
            /\ gate'[v].redirects = 0 /\ gate'[v].location = "none"
            /\ ~gate'[v].alerted]_vars
MatchAuthorizesWitness ==
    \E v \in Views :
        /\ Authorized(v)
        /\ Storage(v).token = gate[v].token
        /\ Storage(v).userCache
             = [kind |-> "json", user |-> gate[v].response.body.data.user]
        /\ gate[v].response.body.data.user.fields # {}

\* C8: a run that has sent its request leaves Checking eventually.
LeavesChecking == \A v \in {"browser"} \X Pages : Checking(v) ~> ~Checking(v)

\* C9: a run whose view was torn down while its round trip was pending has
\* no effect afterwards: no redirect, no storage write, no Authorized.
NoLateEffects == \A v \in Views : gate[v].late = {}

\* C10: a run that starts after a logout, with no login since, is Redirecting
\* at once and is never Authorized, whichever view it runs in.
LogoutFailsLaterChecks ==
    \A v \in Views :
        gate[v].afterLogout => Redirecting(v) /\ ~Authorized(v) /\ gate[v].pc = "done"
LogoutWitness ==
    \E v, w \in Views :
        /\ v # w
        /\ gate[v].afterLogout /\ Redirecting(v)
        /\ gate[w].afterLogout /\ Redirecting(w)

DeletedAccountRejected ==
    [][\A v \in Views :
         (gate[v].pc = "awaitFetch" /\ gate'[v].pc # "awaitFetch"
          /\ gate[v].fate = "up" /\ gate[v].request = IssuedToken
          /\ tokenValid /\ users = Null)
         => /\ ~gate'[v].response.ok
            /\ "data" \notin DOMAIN gate'[v].response.body
            /\ localStorage'[v[1]].token = Null
            /\ localStorage'[v[1]].userCache = NoItem
            /\ gate'[v].pc = "done" /\ gate'[v].cached = NoItem
            /\ gate'[v].redirects = 1 /\ gate'[v].location = "login.html"]_vars
DeletedAccountWitness ==
    \E v \in Views :
        /\ gate[v].pc = "done" /\ gate[v].response.status = 404
        /\ tokenValid /\ users = Null
        /\ Redirecting(v) /\ Storage(v) = EmptyStorage

\* C13: a run sends at most one request, and a run that starts after a run
\* of the same browser was rejected or denied, with no login since, sends
\* none and is Redirecting at once.
NeverRetries ==
    \A v \in Views :
        /\ gate[v].requests <= 1
        /\ gate[v].afterRejection
              => /\ gate[v].requests = 0 /\ gate[v].request = Null
                 /\ gate[v].pc = "done" /\ Redirecting(v)
NeverRetriesWitness ==
    \E v, w \in Views :
        /\ gate[w].outcome \in {"notOk", "error", "roleMismatch"}
        /\ gate[w].requests = 1
        /\ gate[v].afterRejection /\ gate[v].requests = 0 /\ Redirecting(v)

\* C14: a finished run has alerted the user exactly when the server answered
\* ok with a user whose role is not the required one; a run that found no
\* token, got a non-ok response or failed on the network or the body has
\* redirected without an alert, and no unfinished run has alerted.
DenialOnlyOnMismatch ==
    \A v \in Views :
        /\ gate[v].pc # "done" => ~gate[v].alerted
        /\ gate[v].pc = "done"
              => (gate[v].alerted
                    <=> /\ gate[v].response.ok
                        /\ ~Throws(gate[v].response.body)
                        /\ RoleOf(gate[v].response.body.data.user) # RequiredRole(v))
        /\ (gate[v].pc = "done"
            /\ (gate[v].token = Null \/ ~gate[v].response.ok
                \/ Throws(gate[v].response.body)))
              => Redirecting(v) /\ ~gate[v].alerted
DenialOnlyOnMismatchWitness ==
    \E v, w \in Views :
        /\ gate[v].pc = "done" /\ gate[v].alerted /\ Redirecting(v)
        /\ gate[v].response.ok
        /\ gate[w].pc = "done" /\ gate[w].requests = 1 /\ ~gate[w].response.ok
        /\ ~gate[w].alerted /\ Redirecting(w)

\* C15: once a rejected run has emptied the storage of a browser, and until a
\* login, no step of a gate run of that browser puts a value back into either
\* slot, in whatever order the runs still in flight complete.
ClearingLasts ==
    [][\A v \in Views :
         (rejected[v[1]] /\ gate'[v] # gate[v] /\ Storage(v) = EmptyStorage)
         => localStorage'[v[1]] = EmptyStorage]_vars

\* What a run has done: its requests, redirects, alert and cache write.
Effects(g) ==
    <<g.request, g.requests, g.response, g.location, g.redirects, g.alerted,
      g.cached, g.outcome, g.late>>

\* C16: a run redirects at most once and never both redirects and writes the
\* cache; a finished run does nothing more: until its view is left, its
\* requests, redirects, alert, cache write and outcome stay as they are.
TerminalAndExclusive ==
    /\ [](\A v \in Views :
            /\ gate[v].redirects <= 1
            /\ gate[v].redirects > 0 => gate[v].cached = NoItem
            /\ gate[v].cached # NoItem => gate[v].pc = "done" /\ Authorized(v)
            /\ gate[v].redirects > 0 => gate[v].pc = "done")
    /\ [][\A v \in Views :
            gate[v].pc = "done"
            => \/ gate'[v] = IdleGate
               \/ gate'[v].pc = "done" /\ Effects(gate'[v]) = Effects(gate[v])]_vars
TerminalAndExclusiveWitness ==
    \E v, w \in Views :
        /\ gate[v].pc = "done" /\ gate[v].redirects = 0 /\ gate[v].cached # NoItem
        /\ gate[v].rendered
        /\ gate[w].pc = "done" /\ gate[w].redirects = 1 /\ gate[w].cached = NoItem
        /\ gate[w].requests = 1

\* C17: a run whose ok response has a body that is no JSON or carries no
\* data.user ends Redirecting with both storage slots emptied by it; it is
\* never Authorized and never writes the cache.
MalformedBodyRejected ==
    /\ [](\A v \in Views :
            (gate[v].pc = "done" /\ gate[v].response.ok
             /\ Throws(gate[v].response.body))
            => Redirecting(v) /\ ~Authorized(v) /\ gate[v].cached = NoItem)
    /\ [][\A v \in Views :
            (gate[v].pc = "awaitJson" /\ gate'[v].pc # "awaitJson"
             /\ gate[v].response.ok /\ Throws(gate[v].response.body))
            => /\ localStorage'[v[1]] = EmptyStorage
               /\ gate'[v].pc = "done" /\ gate'[v].redirects = 1
               /\ gate'[v].location = "login.html"]_vars
MalformedBodyWitness ==
    \E v, w \in Views :
        /\ gate[v].pc = "done" /\ gate[v].response.ok /\ Redirecting(v)
        /\ gate[v].response.body.kind = "html"
        /\ gate[w].pc = "done" /\ gate[w].response.ok /\ Redirecting(w)
        /\ gate[w].response.body.kind = "json"
        /\ Throws(gate[w].response.body)
        /\ Storage(v) = EmptyStorage

\* C18: from the same stored credential and cache, for the same page, backend
\* state and network fate, the template gate and the inline gate send the
\* same number of requests, and once both have finished they have both
\* redirected or both not and have left the same storage contents.
PatternsEquivalent ==
    \A v \in TemplateViews, w \in InlineViews :
        /\ (gate[v].pc # "idle" /\ gate[w].pc # "idle")
              => gate[v].requests = gate[w].requests
        /\ (gate[v].pc = "done" /\ gate[w].pc = "done")
              => /\ Storage(v) = Storage(w)
                 /\ gate[v].location = gate[w].location
                 /\ (gate[v].redirects > 0) = (gate[w].redirects > 0)
PatternsEquivalentWitness ==
    \E v \in TemplateViews, w \in InlineViews :
        /\ gate[v].pc = "done" /\ gate[w].pc = "done"
        /\ gate[v].outcome = "error" /\ gate[w].outcome = "error"
        /\ gate[w].response.ok /\ gate[w].redirects = 1
        /\ Storage(w) = EmptyStorage /\ Storage(v) = EmptyStorage
====
